---------------------------- MODULE Spec2Model ----------------------------
(***************************************************************************)
(* Model of src/main.py: a poller that watches one wallet on Basescan,     *)
(* decodes deployToken(...) call data, classifies the transaction by fid   *)
(* and castHash, looks up the ERC-20 contract and its name through an RPC  *)
(* node and forwards a message to one or two Telegram channels.            *)
(*                                                                         *)
(* The process is single threaded.  pc is the position of the interpreter  *)
(* in the module body and in main(); every network call (explorer fetch,   *)
(* receipt fetch, name() call, Telegram POST) is a step whose outcome is   *)
(* chosen by the environment.                                              *)
(***************************************************************************)
EXTENDS Integers, Sequences, FiniteSets, TLC

----------------------------------------------------------------------------
(* Values *)

\* Python's None, also the value of dict.get() for an absent key.  TLC compares
\* values of one kind only, so there is one None per kind of value: hashes and
\* addresses (strings), texts (sequences of characters) and dicts (records).
None == "None"
NoneText == <<"None">>
NoneDict == [none |-> TRUE]

\* The environment variables read at import time (lines 13-18).
REQUIRED_ENV == {"WALLET_ADDRESS", "RPC_URL", "TELEGRAM_BOT_TOKEN",
                 "TELEGRAM_CHAT_ID_FID", "TELEGRAM_CHAT_ID_BANKR"}
OPTIONAL_ENV == {"BASESCAN_API_KEY"}
ENV_NAMES == REQUIRED_ENV \cup OPTIONAL_ENV

TELEGRAM_CHAT_ID_FID == "chat_fid"
TELEGRAM_CHAT_ID_BANKR == "chat_bankr"

MAX_RPC_FAILS == 10

\* The fid watched by the classifier (line 213).
WATCHED_FID == 1668

\* Strings whose characters matter are sequences of one-character strings.
BANKR_DEPLOYMENT ==
    <<"b","a","n","k","r"," ","d","e","p","l","o","y","m","e","n","t">>
BankrMixedCase ==
    <<"B","a","n","k","r"," ","D","e","p","l","o","y","m","e","n","t">>
OtherCast == <<"0","x","C","a","f","e">>
EmptyStr == <<>>

UpperChars == <<"A","B","C","D","E","F","G","H","I","J","K","L","M",
                "N","O","P","Q","R","S","T","U","V","W","X","Y","Z">>
LowerChars == <<"a","b","c","d","e","f","g","h","i","j","k","l","m",
                "n","o","p","q","r","s","t","u","v","w","x","y","z">>

\* str.lower() on one character.
LowerChar(c) ==
    IF \E i \in 1..Len(UpperChars) : UpperChars[i] = c
    THEN LowerChars[CHOOSE i \in 1..Len(UpperChars) : UpperChars[i] = c]
    ELSE c

\* str.lower() (line 217).
Lower(s) == [i \in 1..Len(s) |-> LowerChar(s[i])]

----------------------------------------------------------------------------
(* Inputs chosen by the environment *)

\* Transaction hashes the explorer may report; None is a record without a
\* "hash" key, for which tx.get("hash") is None.
Hashes == {"0xA", "0xB"}
HashValues == Hashes \cup {None}

\* The 4-byte selector of deployToken(...) and a selector of another call.
DEPLOY_TOKEN_SELECTOR == "deployToken"
OtherSelector == "transfer"

FidValues == {7, WATCHED_FID}
CastHashValues == {EmptyStr, OtherCast, BANKR_DEPLOYMENT, BankrMixedCase}

\* Call data: <<"0x">> is the bare prefix, a full payload is
\* <<"0x", selector, fid, castHash>>, a truncated one stops early.
Payload(sel, fid, cast) == <<"0x", sel, fid, cast>>
Inputs ==
    {EmptyStr, <<"0x">>, <<"0x", DEPLOY_TOKEN_SELECTOR>>,
     <<"0x", DEPLOY_TOKEN_SELECTOR, WATCHED_FID>>,
     Payload(OtherSelector, WATCHED_FID, BANKR_DEPLOYMENT)}
    \cup {Payload(DEPLOY_TOKEN_SELECTOR, f, c) :
            f \in FidValues, c \in CastHashValues}

\* data["result"][0]: the keys main() reads; None is an absent key.
Transactions == [hash : HashValues, input : Inputs \cup {NoneText}]

\* An older transaction that may follow the latest one in the result list.
OlderTx == [hash |-> "0xOLD", input |-> <<"0x">>]

\* What requests.get(...).json() may give (lines 108-110): an exception, or
\* a body with a status and a result list sorted newest first.
Responses ==
    {[raised |-> TRUE]}
    \cup [status : {"0", "1"}, result : {<<>>}]
    \cup {[status |-> s, result |-> r] :
            s \in {"0", "1"},
            r \in {<<t>> : t \in Transactions} \cup {<<t, OlderTx>> : t \in Transactions}}

\* Topic hashes.
TRANSFER_EVENT_SIG == "keccak(Transfer(address,address,uint256))"
ApprovalSig == "keccak(Approval(address,address,uint256))"

\* Receipt logs.  The ERC-20 Transfer has three topics and one data word;
\* the ERC-721 Transfer has the same signature hash, four topics and no data.
Log(addr, topics, data) == [address |-> addr, topics |-> topics, data |-> data]
Erc20Transfer(addr) == Log(addr, <<TRANSFER_EVENT_SIG, "from", "to">>, <<"value">>)
Erc721Transfer(addr) == Log(addr, <<TRANSFER_EVENT_SIG, "from", "to", "id">>, <<>>)
ApprovalLog(addr) == Log(addr, <<ApprovalSig, "owner", "spender">>, <<"value">>)
AnonymousLog(addr) == Log(addr, <<>>, <<"value">>)
LogValues ==
    {Erc20Transfer("0xTOKEN"), Erc20Transfer("0xTOKEN2"), Erc721Transfer("0xNFT"),
     ApprovalLog("0xWETH"), AnonymousLog("0xPOOL")}

MaxLogs == 2
\* What eth.get_transaction_receipt may give (line 139): an exception or a
\* receipt with a list of logs.
ReceiptResults ==
    {[raised |-> TRUE]}
    \cup {[logs |-> l] : l \in UNION {[1..n -> LogValues] : n \in 0..MaxLogs}}

\* What name().call() may give (line 176): an exception or a string.
TestCoin == <<"T","e","s","t","C","o","i","n">>
NameResults == {[raised |-> TRUE], [value |-> TestCoin], [value |-> EmptyStr]}

\* The fetch sequence of the dedupe scenario.
FetchScript == <<"0xA", "0xA", "0xA", "0xB", "0xB">>

----------------------------------------------------------------------------
VARIABLES
    env,              \* the environment variables that are set
    pc,               \* position of the interpreter
    rpc_fail_count,   \* module global (line 26)
    last_tx_hash,     \* main()'s local (line 194)
    tx,               \* main()'s locals within one iteration
    current_hash,
    preSaleConfig,
    process_fid,
    process_bankr,
    token_contract,
    token_name,
    receipt,          \* get_erc20_transfer's local (line 139)
    events,           \* history: the calls made since the latest fetch began;
                      \*   the fetch's entry keeps the poll state it started from
    seen_hashes,      \* history: hashes processed in earlier iterations
    script_pos,       \* history: how much of FetchScript the fetches have
                      \*   followed so far, -1 once they departed from it
    script_attempts   \* history: the hashes processed while following it

locals == <<tx, current_hash, preSaleConfig, process_fid, process_bankr,
            token_contract, token_name, receipt>>
history == <<seen_hashes, script_pos, script_attempts>>
vars == <<env, pc, rpc_fail_count, last_tx_hash, locals, events, history>>

\* Mutant of Init: last_tx_hash is loaded with what an earlier run recorded.
InitPersisted ==
    /\ env \in SUBSET ENV_NAMES
    /\ pc = "config"
    /\ rpc_fail_count = 0
    /\ last_tx_hash \in HashValues
    /\ tx = NoneDict
    /\ current_hash = None
    /\ preSaleConfig = NoneDict
    /\ process_fid = FALSE
    /\ process_bankr = FALSE
    /\ token_contract = None
    /\ token_name = NoneText
    /\ receipt = NoneDict
    /\ events = <<>>
    /\ seen_hashes = {}
    /\ script_pos = 0
    /\ script_attempts = <<>>

Init ==
    /\ env \in SUBSET ENV_NAMES
    /\ pc = "config"
    /\ rpc_fail_count = 0
    /\ last_tx_hash = None
    /\ tx = NoneDict
    /\ current_hash = None
    /\ preSaleConfig = NoneDict
    /\ process_fid = FALSE
    /\ process_bankr = FALSE
    /\ token_contract = None
    /\ token_name = NoneText
    /\ receipt = NoneDict
    /\ events = <<>>
    /\ seen_hashes = {}
    /\ script_pos = 0
    /\ script_attempts = <<>>

----------------------------------------------------------------------------
(* Module body, lines 13-26 *)

\* Mutant of ConfigCheck: TELEGRAM_CHAT_ID_BANKR is left out of the test.
ConfigCheckFourNames ==
    /\ pc = "config"
    /\ pc' = IF (REQUIRED_ENV \ {"TELEGRAM_CHAT_ID_BANKR"}) \subseteq env
             THEN "start_fid" ELSE "exited"
    /\ UNCHANGED <<env, rpc_fail_count, last_tx_hash, locals, events, history>>

\* Lines 20-23: exit(1) unless the five required variables are set.
ConfigCheck ==
    /\ pc = "config"
    /\ pc' = IF REQUIRED_ENV \subseteq env THEN "start_fid" ELSE "exited"
    /\ UNCHANGED <<env, rpc_fail_count, last_tx_hash, locals, events, history>>

----------------------------------------------------------------------------
(* send_telegram_message_to, lines 31-43 *)

\* Mutant of send_telegram_message_to: the exception of a failed POST is not
\* caught and ends the process.
send_telegram_message_uncaught(chat_id, message, ok, next_pc) ==
    /\ events' = Append(events, [op |-> "send", chat_id |-> chat_id,
                                 message |-> message, ok |-> ok])
    /\ pc' = IF ok THEN next_pc ELSE "exited"
    /\ UNCHANGED <<env, rpc_fail_count, last_tx_hash, history>>

\* One POST; ok is FALSE when requests.post or raise_for_status raises.  The
\* exception is caught and logged, so the caller goes on to next_pc.
send_telegram_message_to(chat_id, message, ok, next_pc) ==
    /\ events' = Append(events, [op |-> "send", chat_id |-> chat_id,
                                 message |-> message, ok |-> ok])
    /\ pc' = next_pc
    /\ UNCHANGED <<env, rpc_fail_count, last_tx_hash, history>>

----------------------------------------------------------------------------
(* decode_input_data_abi, lines 86-92 *)

\* Mutant of decode_input_data_abi: the selector is not compared.
decode_input_data_any_selector(input_hex) ==
    IF Len(input_hex) = 4
    THEN [fid |-> input_hex[3], castHash |-> input_hex[4]]
    ELSE NoneDict

\* contract.decode_function_input: the selector must be deployToken's and
\* the arguments must be complete, else it raises and None is returned.
decode_input_data_abi(input_hex) ==
    IF /\ Len(input_hex) >= 2
       /\ input_hex[2] = DEPLOY_TOKEN_SELECTOR
       /\ Len(input_hex) = 4
    THEN [fid |-> input_hex[3], castHash |-> input_hex[4]]
    ELSE NoneDict

----------------------------------------------------------------------------
(* get_latest_transaction, lines 97-118 *)

\* Mutant of get_latest_transaction: the status of the body is not looked at.
get_latest_transaction_any_status(response) ==
    IF "raised" \in DOMAIN response THEN NoneDict
    ELSE IF response.result # <<>>
         THEN response.result[1]
         ELSE NoneDict

get_latest_transaction(response) ==
    IF "raised" \in DOMAIN response THEN NoneDict
    ELSE IF response.status = "1" /\ response.result # <<>>
         THEN response.result[1]
         ELSE NoneDict

----------------------------------------------------------------------------
(* get_erc20_transfer, lines 135-154 *)

\* Mutant of HasTransferTopic: any log that has a topic passes.
HasAnyTopic(log) == Len(log.topics) > 0

\* Line 148: log.topics and log.topics[0].hex() == TRANSFER_EVENT_SIG.
HasTransferTopic(log) ==
    Len(log.topics) > 0 /\ log.topics[1] = TRANSFER_EVENT_SIG

\* Line 150: get_event_data against transfer_event_abi raises unless the log
\* has one topic per indexed input (from, to) and one data word (value).
EventDataDecodes(log) ==
    Len(log.topics) - 1 = 2 /\ Len(log.data) = 1

\* Mutant of ScanLogs: the loop does not return at the first log that passes
\* and the last one that passes wins.
ScanLogsLast(logs) ==
    LET passing == {i \in 1..Len(logs) :
                      HasTransferTopic(logs[i]) /\ EventDataDecodes(logs[i])}
    IN  IF passing = {} THEN None
        ELSE logs[CHOOSE i \in passing : \A j \in passing : j <= i].address

\* Lines 147-154: the address of the first log that passes both, else None.
RECURSIVE ScanLogs(_)
ScanLogs(logs) ==
    IF logs = <<>> THEN None
    ELSE IF HasTransferTopic(Head(logs)) /\ EventDataDecodes(Head(logs))
         THEN Head(logs).address
         ELSE ScanLogs(Tail(logs))

----------------------------------------------------------------------------
(* main, lines 188-269 *)

\* Lines 191-192: the start message to both channels.
START_MESSAGE == "[Railway Start]"

StartFid ==
    /\ pc = "start_fid"
    /\ \E ok \in BOOLEAN :
         send_telegram_message_to(TELEGRAM_CHAT_ID_FID, START_MESSAGE, ok, "start_bankr")
    /\ UNCHANGED locals

StartBankr ==
    /\ pc = "start_bankr"
    /\ \E ok \in BOOLEAN :
         send_telegram_message_to(TELEGRAM_CHAT_ID_BANKR, START_MESSAGE, ok, "poll")
    /\ UNCHANGED locals

\* The history of the dedupe scenario after a fetch that returned t.
ScriptAfterFetch(t) ==
    IF /\ t # NoneDict
       /\ script_pos >= 0
       /\ script_pos < Len(FetchScript)
       /\ t.hash = FetchScript[script_pos + 1]
    THEN /\ script_pos' = script_pos + 1
         /\ script_attempts' = script_attempts
    ELSE /\ script_pos' = -1
         /\ script_attempts' = <<>>

\* Mutant of Poll: the exception of a failed GET is not caught and ends the
\* process.
PollUncaught ==
    /\ pc = "poll"
    /\ \E response \in Responses :
         /\ tx' = get_latest_transaction(response)
         /\ events' = <<[op |-> "fetch", ok |-> tx' # NoneDict,
                         raised |-> "raised" \in DOMAIN response,
                         status |-> IF "raised" \in DOMAIN response THEN None
                                    ELSE response.status,
                         empty |-> IF "raised" \in DOMAIN response THEN TRUE
                                   ELSE response.result = <<>>,
                         api_key |-> "BASESCAN_API_KEY" \in env,
                         last_tx_hash |-> last_tx_hash,
                         rpc_fail_count |-> rpc_fail_count]>>
         /\ ScriptAfterFetch(tx')
         /\ pc' = IF "raised" \in DOMAIN response THEN "exited" ELSE "check"
    /\ UNCHANGED <<env, rpc_fail_count, last_tx_hash, current_hash, preSaleConfig,
                   process_fid, process_bankr, token_contract, token_name,
                   receipt, seen_hashes>>

\* Line 199: tx = get_latest_transaction().
Poll ==
    /\ pc = "poll"
    /\ \E response \in Responses :
         /\ tx' = get_latest_transaction(response)
         /\ events' = <<[op |-> "fetch", ok |-> tx' # NoneDict,
                         raised |-> "raised" \in DOMAIN response,
                         status |-> IF "raised" \in DOMAIN response THEN None
                                    ELSE response.status,
                         empty |-> IF "raised" \in DOMAIN response THEN TRUE
                                   ELSE response.result = <<>>,
                         api_key |-> "BASESCAN_API_KEY" \in env,
                         last_tx_hash |-> last_tx_hash,
                         rpc_fail_count |-> rpc_fail_count]>>
         /\ ScriptAfterFetch(tx')
    /\ pc' = "check"
    /\ UNCHANGED <<env, rpc_fail_count, last_tx_hash, current_hash, preSaleConfig,
                   process_fid, process_bankr, token_contract, token_name,
                   receipt, seen_hashes>>

\* Mutant of CheckNew: every fetched transaction is taken as new.
CheckNewNoDedupe ==
    /\ pc = "check"
    /\ IF tx # NoneDict
       THEN /\ current_hash' = tx.hash
            /\ pc' = "decode"
       ELSE /\ current_hash' = current_hash
            /\ pc' = "sleep"
    /\ UNCHANGED <<env, rpc_fail_count, last_tx_hash, tx, preSaleConfig,
                   process_fid, process_bankr, token_contract, token_name,
                   receipt, events, history>>

\* Lines 200-202 and 265-268: is there a transaction, and is it a new one?
CheckNew ==
    /\ pc = "check"
    /\ IF tx # NoneDict
       THEN /\ current_hash' = tx.hash
            /\ pc' = IF tx.hash # last_tx_hash THEN "decode" ELSE "sleep"
       ELSE /\ current_hash' = current_hash
            /\ pc' = "sleep"
    /\ UNCHANGED <<env, rpc_fail_count, last_tx_hash, tx, preSaleConfig,
                   process_fid, process_bankr, token_contract, token_name,
                   receipt, events, history>>

\* Line 203: tx.get("input", "").
InputDataHex(t) == IF t.input = NoneText THEN EmptyStr ELSE t.input

\* Mutant of Decode: only the empty string is kept from the decoder.
DecodeUnlessEmpty ==
    /\ pc = "decode"
    /\ LET input_data_hex == InputDataHex(tx) IN
         IF input_data_hex # EmptyStr
         THEN /\ preSaleConfig' = decode_input_data_abi(input_data_hex)
              /\ events' = Append(events, [op |-> "decode",
                                           ok |-> preSaleConfig' # NoneDict])
         ELSE /\ preSaleConfig' = NoneDict
              /\ events' = events
    /\ pc' = "classify"
    /\ script_attempts' = IF script_pos >= 0
                          THEN Append(script_attempts, current_hash)
                          ELSE script_attempts
    /\ UNCHANGED <<env, rpc_fail_count, last_tx_hash, tx, current_hash,
                   process_fid, process_bankr, token_contract, token_name,
                   receipt, seen_hashes, script_pos>>

\* Lines 203-206.
Decode ==
    /\ pc = "decode"
    /\ LET input_data_hex == InputDataHex(tx) IN
         IF input_data_hex # EmptyStr /\ input_data_hex # <<"0x">>
         THEN /\ preSaleConfig' = decode_input_data_abi(input_data_hex)
              /\ events' = Append(events, [op |-> "decode",
                                           ok |-> preSaleConfig' # NoneDict])
         ELSE /\ preSaleConfig' = NoneDict
              /\ events' = events
    /\ pc' = "classify"
    /\ script_attempts' = IF script_pos >= 0
                          THEN Append(script_attempts, current_hash)
                          ELSE script_attempts
    /\ UNCHANGED <<env, rpc_fail_count, last_tx_hash, tx, current_hash,
                   process_fid, process_bankr, token_contract, token_name,
                   receipt, seen_hashes, script_pos>>

\* Line 213: int(preSaleConfig.get("fid", 0)) == 1668.
FidMatch(config) == config.fid = WATCHED_FID

\* Mutant of CastHashMatch: the comparison without lower().
CastHashMatchExact(config) == config.castHash = BANKR_DEPLOYMENT

\* Line 217: preSaleConfig.get("castHash", "").lower() == "bankr deployment".
CastHashMatch(config) == Lower(config.castHash) = BANKR_DEPLOYMENT

\* Mutant of Classify: a transaction that matches no route skips line 264.
ClassifySkipUpdate ==
    /\ pc = "classify"
    /\ process_fid' = (preSaleConfig # NoneDict /\ FidMatch(preSaleConfig))
    /\ process_bankr' = (preSaleConfig # NoneDict /\ CastHashMatch(preSaleConfig))
    /\ pc' = IF process_fid' \/ process_bankr' THEN "receipt" ELSE "sleep"
    /\ UNCHANGED <<env, rpc_fail_count, last_tx_hash, tx, current_hash,
                   preSaleConfig, token_contract, token_name, receipt, events,
                   history>>

\* Lines 209-220.
Classify ==
    /\ pc = "classify"
    /\ process_fid' = (preSaleConfig # NoneDict /\ FidMatch(preSaleConfig))
    /\ process_bankr' = (preSaleConfig # NoneDict /\ CastHashMatch(preSaleConfig))
    /\ pc' = IF process_fid' \/ process_bankr' THEN "receipt" ELSE "update"
    /\ UNCHANGED <<env, rpc_fail_count, last_tx_hash, tx, current_hash,
                   preSaleConfig, token_contract, token_name, receipt, events,
                   history>>

\* Mutant of ReaderSuccess: a call that succeeds resets the counter.
ReaderSuccessResets == rpc_fail_count' = 0

\* Lines 139 and 175-176: a reader call that succeeds leaves the counter alone.
ReaderSuccess == rpc_fail_count' = rpc_fail_count

\* Mutant of ReaderFailure: a failed call below the threshold gives up on the
\* transaction instead of returning None.
ReaderFailureAborts(next_pc) ==
    /\ rpc_fail_count' = rpc_fail_count + 1
    /\ pc' = IF rpc_fail_count' >= MAX_RPC_FAILS THEN "exited" ELSE "update"

\* Mutant of ReaderFailure: the threshold test is > instead of >=.
ReaderFailureLateExit(next_pc) ==
    /\ rpc_fail_count' = rpc_fail_count + 1
    /\ pc' = IF rpc_fail_count' > MAX_RPC_FAILS THEN "exited" ELSE next_pc

\* Mutant of ReaderFailure: the helper counts and returns None, and leaves
\* the exit to its caller.
ReaderFailureNoExit(next_pc) ==
    /\ rpc_fail_count' = rpc_fail_count + 1
    /\ pc' = next_pc

\* Lines 140-146 and 177-183: a failed reader call counts, and the tenth
\* one ends the process.
ReaderFailure(next_pc) ==
    /\ rpc_fail_count' = rpc_fail_count + 1
    /\ pc' = IF rpc_fail_count' >= MAX_RPC_FAILS THEN "exited" ELSE next_pc

\* Mutant of GetReceipt: name() is called after a failed receipt fetch too.
GetReceiptThenName ==
    /\ pc = "receipt"
    /\ \E result \in ReceiptResults :
         /\ events' = Append(events, [op |-> "receipt", tx_hash |-> current_hash,
                                      ok |-> "raised" \notin DOMAIN result])
         /\ IF "raised" \in DOMAIN result
            THEN /\ ReaderFailure("name")
                 /\ receipt' = NoneDict
                 /\ token_contract' = None
                 /\ token_name' = NoneText
            ELSE /\ ReaderSuccess
                 /\ receipt' = result
                 /\ pc' = "scan"
                 /\ UNCHANGED <<token_contract, token_name>>
    /\ UNCHANGED <<env, last_tx_hash, tx, current_hash, preSaleConfig,
                   process_fid, process_bankr, history>>

\* Lines 221-222 and 137-146: get_erc20_transfer fetches the receipt.
GetReceipt ==
    /\ pc = "receipt"
    /\ \E result \in ReceiptResults :
         /\ events' = Append(events, [op |-> "receipt", tx_hash |-> current_hash,
                                      ok |-> "raised" \notin DOMAIN result])
         /\ IF "raised" \in DOMAIN result
            THEN /\ ReaderFailure("notify_fid")
                 /\ receipt' = NoneDict
                 /\ token_contract' = None
                 /\ token_name' = NoneText
            ELSE /\ ReaderSuccess
                 /\ receipt' = result
                 /\ pc' = "scan"
                 /\ UNCHANGED <<token_contract, token_name>>
    /\ UNCHANGED <<env, last_tx_hash, tx, current_hash, preSaleConfig,
                   process_fid, process_bankr, history>>

\* Mutant of ScanReceipt: line 223 does not test token_contract.
ScanReceiptAlwaysName ==
    /\ pc = "scan"
    /\ token_contract' = ScanLogs(receipt.logs)
    /\ token_name' = NoneText
    /\ pc' = "name"
    /\ UNCHANGED <<env, rpc_fail_count, last_tx_hash, tx, current_hash,
                   preSaleConfig, process_fid, process_bankr, receipt, events,
                   history>>

\* Lines 147-154 and 221-223: get_erc20_transfer scans the logs and returns.
ScanReceipt ==
    /\ pc = "scan"
    /\ token_contract' = ScanLogs(receipt.logs)
    /\ token_name' = NoneText
    /\ pc' = IF token_contract' # None THEN "name" ELSE "notify_fid"
    /\ UNCHANGED <<env, rpc_fail_count, last_tx_hash, tx, current_hash,
                   preSaleConfig, process_fid, process_bankr, receipt, events,
                   history>>

\* Lines 223-224: token_name = get_token_name(token_contract, RPC_URL).
GetTokenName ==
    /\ pc = "name"
    /\ \E result \in NameResults :
         /\ events' = Append(events, [op |-> "name", address |-> token_contract,
                                      ok |-> "raised" \notin DOMAIN result])
         /\ IF "raised" \in DOMAIN result
            THEN /\ ReaderFailure("notify_fid")
                 /\ token_name' = NoneText
            ELSE /\ ReaderSuccess
                 /\ token_name' = result.value
                 /\ pc' = "notify_fid"
    /\ receipt' = NoneDict
    /\ UNCHANGED <<env, last_tx_hash, tx, current_hash, preSaleConfig,
                   process_fid, process_bankr, token_contract, history>>

\* Lines 226-253: the message body; a missing contract or name is replaced
\* by a fixed text and the links are left out.
NOT_FOUND == "Khong tim thay"
NO_NAME == <<"Khong lay duoc ten">>
log_message ==
    [tx_link |-> current_hash,
     fid |-> preSaleConfig.fid,
     castHash |-> preSaleConfig.castHash,
     contract_text |-> IF token_contract # None THEN token_contract ELSE NOT_FOUND,
     ticket |-> IF token_name # NoneText /\ token_name # EmptyStr
                THEN token_name ELSE NO_NAME,
     token_links |-> IF token_contract # None THEN token_contract ELSE None]

\* The locals of main() that a notification leaves alone.
main_locals == <<tx, current_hash, preSaleConfig, process_fid, process_bankr,
                 token_contract, token_name>>

\* Lines 257-258; get_erc20_transfer's frame is gone by now.
NotifyFid ==
    /\ pc = "notify_fid"
    /\ IF process_fid
       THEN \E ok \in BOOLEAN :
              send_telegram_message_to(TELEGRAM_CHAT_ID_FID,
                  [tag |-> "[FID 1668]", body |-> log_message], ok, "notify_bankr")
       ELSE /\ pc' = "notify_bankr"
            /\ UNCHANGED <<env, rpc_fail_count, last_tx_hash, events, history>>
    /\ receipt' = NoneDict
    /\ UNCHANGED main_locals

\* Mutant of NotifyBankr: the branch tests process_fid.
NotifyBankrOnFid ==
    /\ pc = "notify_bankr"
    /\ IF process_fid
       THEN \E ok \in BOOLEAN :
              send_telegram_message_to(TELEGRAM_CHAT_ID_BANKR,
                  [tag |-> "[BNKR DEPLOYER]", body |-> log_message], ok, "update")
       ELSE /\ pc' = "update"
            /\ UNCHANGED <<env, rpc_fail_count, last_tx_hash, events, history>>
    /\ UNCHANGED locals

\* Lines 259-260.
NotifyBankr ==
    /\ pc = "notify_bankr"
    /\ IF process_bankr
       THEN \E ok \in BOOLEAN :
              send_telegram_message_to(TELEGRAM_CHAT_ID_BANKR,
                  [tag |-> "[BNKR DEPLOYER]", body |-> log_message], ok, "update")
       ELSE /\ pc' = "update"
            /\ UNCHANGED <<env, rpc_fail_count, last_tx_hash, events, history>>
    /\ UNCHANGED locals

\* Mutant of UpdateLastHash: the hash is remembered only for a transaction
\* that matched a route.
UpdateLastHashIfMatched ==
    /\ pc = "update"
    /\ last_tx_hash' = IF process_fid \/ process_bankr THEN current_hash
                       ELSE last_tx_hash
    /\ seen_hashes' = seen_hashes \cup {current_hash}
    /\ pc' = "sleep"
    /\ UNCHANGED <<env, rpc_fail_count, locals, events, script_pos, script_attempts>>

\* Line 264: last_tx_hash = current_hash.
UpdateLastHash ==
    /\ pc = "update"
    /\ last_tx_hash' = current_hash
    /\ seen_hashes' = seen_hashes \cup {current_hash}
    /\ pc' = "sleep"
    /\ UNCHANGED <<env, rpc_fail_count, locals, events, script_pos, script_attempts>>

\* Line 269: time.sleep(1), then the next iteration.  The locals of the
\* iteration are dead from here: each is assigned again before it is read.
Sleep ==
    /\ pc = "sleep"
    /\ pc' = "poll"
    /\ tx' = NoneDict
    /\ current_hash' = None
    /\ preSaleConfig' = NoneDict
    /\ process_fid' = FALSE
    /\ process_bankr' = FALSE
    /\ token_contract' = None
    /\ token_name' = NoneText
    /\ receipt' = NoneDict
    /\ events' = <<>>
    /\ UNCHANGED <<env, rpc_fail_count, last_tx_hash, history>>

Next ==
    \/ ConfigCheck
    \/ StartFid
    \/ StartBankr
    \/ Poll
    \/ CheckNew
    \/ Decode
    \/ Classify
    \/ GetReceipt
    \/ ScanReceipt
    \/ GetTokenName
    \/ NotifyFid
    \/ NotifyBankr
    \/ UpdateLastHash
    \/ Sleep

Spec == Init /\ [][Next]_vars

\* The process is one thread and every call it waits for has a timeout (5 s
\* and 9 s for the POST and the GET, the provider's own for the reader) or
\* returns by itself (time.sleep(1)): a step that can be taken is taken.
FairSpec == Spec /\ WF_vars(Next)

----------------------------------------------------------------------------
(* Reading the history *)

\* The positions of a processing attempt, lines 203-264.
ProcessingPcs == {"decode", "classify", "receipt", "scan", "name",
                  "notify_fid", "notify_bankr", "update"}

\* The main loop has been entered.
LoopPcs == ProcessingPcs \cup {"poll", "check", "sleep"}

\* The entry of the fetch that began the current iteration.
FetchEntry == events[1]
InIteration == pc \in (LoopPcs \ {"poll"}) \/ (pc = "exited" /\ events # <<>>)

EventsWhere(Test(_)) == {i \in 1..Len(events) : Test(events[i])}
IsFailedReaderCall(e) == e.op \in {"receipt", "name"} /\ ~e.ok
IsSendTo(e, chat_id) == e.op = "send" /\ e.chat_id = chat_id
FailedReaderCalls == EventsWhere(LAMBDA e : IsFailedReaderCall(e))
SendsTo(chat_id) == EventsWhere(LAMBDA e : IsSendTo(e, chat_id))

\* s without the repeats of its consecutive runs.
RECURSIVE Collapse(_)
Collapse(s) ==
    IF Len(s) <= 1 THEN s
    ELSE IF s[1] = s[2] THEN Collapse(Tail(s))
         ELSE <<s[1]>> \o Collapse(Tail(s))

----------------------------------------------------------------------------
(* C1 *)

\* C1 as stated: over any sequence of fetch results at most one processing
\* attempt is made per distinct hash, so no attempt is ever made for a hash
\* that an earlier iteration already processed.
\* (Stated for fetches whose records all carry a hash.)
C1_OnceEverPerHash ==
    (pc \in ProcessingPcs /\ seen_hashes \subseteq Hashes) =>
        current_hash \notin seen_hashes

\* C1, amended: an attempt is made exactly for a fetched hash that differs from
\* last_tx_hash, the hash of the latest attempt, so a run of consecutive
\* fetches of one hash gets one attempt; the fetches A, A, A, B, B get exactly
\* two attempts, one for A and one for B.
C1_OncePerRun ==
    /\ pc \in ProcessingPcs =>
         /\ current_hash = tx.hash
         /\ current_hash # last_tx_hash
         /\ current_hash # FetchEntry.last_tx_hash
    /\ (pc = "sleep" /\ tx # NoneDict /\ tx.hash = FetchEntry.last_tx_hash) =>
         current_hash \in seen_hashes \cup {None}
    /\ (pc = "sleep" /\ script_pos >= 0) =>
         script_attempts = Collapse(SubSeq(FetchScript, 1, script_pos))
    /\ (pc = "sleep" /\ script_pos = Len(FetchScript)) =>
         script_attempts = <<"0xA", "0xB">>

C1_Witness ==
    /\ pc = "sleep"
    /\ script_pos = Len(FetchScript)
    /\ script_attempts = <<"0xA", "0xB">>

----------------------------------------------------------------------------
(* C2 *)

\* The step appends a failed reader call to the history.
ReaderCallFails ==
    /\ Len(events') = Len(events) + 1
    /\ IsFailedReaderCall(events'[Len(events')])

\* C2: rpc_fail_count grows by one in a step that is a failed receipt fetch or
\* a failed name() call and stays as it is in every other step; the process
\* runs while the count is below MAX_RPC_FAILS (so after the 9th failure) and
\* exits in the very step that brings it to 10.
C2_CountAndThreshold ==
    /\ [][rpc_fail_count' = rpc_fail_count + (IF ReaderCallFails THEN 1 ELSE 0)]_vars
    /\ [][(pc # "exited" /\ pc' = "exited" /\ pc # "config") =>
             (ReaderCallFails /\ rpc_fail_count = MAX_RPC_FAILS - 1
                /\ rpc_fail_count' = MAX_RPC_FAILS)]_vars
    /\ [](pc \in LoopPcs => rpc_fail_count < MAX_RPC_FAILS)
    /\ []((pc = "exited" /\ REQUIRED_ENV \subseteq env) =>
             rpc_fail_count = MAX_RPC_FAILS)

C2_Witness ==
    /\ pc = "exited"
    /\ rpc_fail_count = MAX_RPC_FAILS
    /\ events[Len(events)].op = "name"
    /\ ~events[Len(events)].ok

----------------------------------------------------------------------------
(* C3 *)

\* C3: when the fetched hash differed from last_tx_hash and the iteration is at
\* its sleep, last_tx_hash is the fetched hash, whatever happened in between.
C3_HashRecordedAtSleep ==
    (pc = "sleep" /\ tx # NoneDict /\ tx.hash # FetchEntry.last_tx_hash) =>
        last_tx_hash = tx.hash

\* An iteration that failed to decode the payload is at its sleep.
C3_Witness ==
    /\ pc = "sleep"
    /\ tx # NoneDict
    /\ tx.hash # FetchEntry.last_tx_hash
    /\ last_tx_hash = tx.hash
    /\ \E i \in 1..Len(events) : events[i].op = "decode" /\ ~events[i].ok

----------------------------------------------------------------------------
(* C4 *)

\* C4: an iteration whose fetch returned the hash that last_tx_hash already
\* held makes no call after the fetch (no decode, receipt fetch, name call or
\* notification) and leaves last_tx_hash and rpc_fail_count as they were; from
\* the comparison it goes straight to the sleep.
C4_SameHashIsNoOp ==
    /\ [](((pc \in LoopPcs \ {"poll"}) /\ tx # NoneDict
             /\ tx.hash = FetchEntry.last_tx_hash) =>
            /\ pc \in {"check", "sleep"}
            /\ Len(events) = 1
            /\ last_tx_hash = FetchEntry.last_tx_hash
            /\ rpc_fail_count = FetchEntry.rpc_fail_count)
    /\ [][(pc = "check" /\ tx # NoneDict /\ tx.hash = last_tx_hash) =>
            (pc' = "sleep" /\ UNCHANGED <<last_tx_hash, rpc_fail_count, events>>)]_vars

\* The same hash was fetched again, after a first fetch recorded it.
C4_Witness ==
    /\ pc = "sleep"
    /\ tx # NoneDict
    /\ tx.hash \in Hashes
    /\ tx.hash = FetchEntry.last_tx_hash
    /\ Len(events) = 1

----------------------------------------------------------------------------
(* C5 *)

\* s equals the lower-case literal up to the case of its letters.
EqualsIgnoringCase(s, literal) ==
    /\ Len(s) = Len(literal)
    /\ \A i \in 1..Len(s) :
         \/ s[i] = literal[i]
         \/ \E k \in 1..Len(LowerChars) :
              LowerChars[k] = literal[i] /\ UpperChars[k] = s[i]

\* The routes of a decoded payload, read off the payload itself.
FidRoute == preSaleConfig # NoneDict /\ preSaleConfig.fid = 1668
CastHashRoute ==
    /\ preSaleConfig # NoneDict
    /\ EqualsIgnoringCase(preSaleConfig.castHash, BANKR_DEPLOYMENT)

\* The positions after the classification of lines 209-218.
ClassifiedPcs == {"receipt", "scan", "name", "notify_fid", "notify_bankr",
                  "update", "exited"}
Classified ==
    \/ pc \in ClassifiedPcs /\ events # <<>> /\ events[1].op = "fetch"
    \/ pc = "sleep" /\ tx # NoneDict /\ tx.hash # FetchEntry.last_tx_hash

\* C5: for a decoded payload the fid route is selected iff fid is 1668 and the
\* cast-hash route iff castHash equals "bankr deployment" up to case, each
\* whatever the other is.
C5_RoutesFollowPayload ==
    (Classified /\ preSaleConfig # NoneDict) =>
        /\ process_fid <=> (preSaleConfig.fid = 1668)
        /\ process_bankr <=>
             EqualsIgnoringCase(preSaleConfig.castHash, BANKR_DEPLOYMENT)

\* "Bankr Deployment" with fid 7 selects the cast-hash route alone.
C5_Witness ==
    /\ pc = "receipt"
    /\ preSaleConfig # NoneDict
    /\ preSaleConfig.castHash = BankrMixedCase
    /\ preSaleConfig.fid = 7
    /\ process_bankr
    /\ ~process_fid

----------------------------------------------------------------------------
(* C6 *)

\* The processing of the fetched transaction is over.
ProcessingCompleted ==
    pc = "sleep" /\ tx # NoneDict /\ tx.hash # FetchEntry.last_tx_hash
ProcessingCutShort ==
    pc = "exited" /\ events # <<>> /\ events[1].op = "fetch"

Count(b) == IF b THEN 1 ELSE 0

\* The notifications match the routes of the payload, one each.
OneDispatchPerRoute ==
    /\ Cardinality(SendsTo(TELEGRAM_CHAT_ID_FID)) = Count(FidRoute)
    /\ Cardinality(SendsTo(TELEGRAM_CHAT_ID_BANKR)) = Count(CastHashRoute)

\* Every notification of the iteration is about the fetched transaction and
\* carries the route's tag.
DispatchesWellFormed ==
    \A i \in 1..Len(events) :
        events[i].op = "send" =>
            /\ events[i].message.body.tx_link = tx.hash
            /\ events[i].message.body.fid = preSaleConfig.fid
            /\ events[i].message.body.castHash = preSaleConfig.castHash
            /\ events[i].message.tag =
                 (IF events[i].chat_id = TELEGRAM_CHAT_ID_FID
                  THEN "[FID 1668]" ELSE "[BNKR DEPLOYER]")

\* C6 as stated: whenever the processing of a new transaction is over, each
\* matched route got exactly one notification and no other route got one.
C6_DispatchIffMatched ==
    (ProcessingCompleted \/ ProcessingCutShort) => OneDispatchPerRoute

\* C6, amended: that holds of every new transaction whose processing is not
\* cut short by the exit at the tenth reader failure; the transaction that
\* brings rpc_fail_count to MAX_RPC_FAILS gets no notification at all.
C6_DispatchIffMatchedUnlessExit ==
    /\ ProcessingCompleted => (OneDispatchPerRoute /\ DispatchesWellFormed)
    /\ ProcessingCutShort =>
         /\ SendsTo(TELEGRAM_CHAT_ID_FID) = {}
         /\ SendsTo(TELEGRAM_CHAT_ID_BANKR) = {}
    /\ (pc \in ProcessingPcs) =>
         /\ Cardinality(SendsTo(TELEGRAM_CHAT_ID_FID)) <= Count(FidRoute)
         /\ Cardinality(SendsTo(TELEGRAM_CHAT_ID_BANKR)) <= Count(CastHashRoute)

\* castHash "bankr deployment" with fid 7, a Transfer log of 0xTOKEN and the
\* name TestCoin: one notification, to the cast-hash channel.
C6_Witness ==
    /\ ProcessingCompleted
    /\ preSaleConfig # NoneDict
    /\ preSaleConfig.fid = 7
    /\ preSaleConfig.castHash = BANKR_DEPLOYMENT
    /\ SendsTo(TELEGRAM_CHAT_ID_FID) = {}
    /\ \E i \in 1..Len(events) :
         /\ SendsTo(TELEGRAM_CHAT_ID_BANKR) = {i}
         /\ events[i].message.body.tx_link = "0xA"
         /\ events[i].message.body.contract_text = "0xTOKEN"
         /\ events[i].message.body.ticket = TestCoin

----------------------------------------------------------------------------
(* C7 *)

\* C7: rpc_fail_count starts at zero and no step lowers it, a step in which a
\* receipt fetch or a name() call succeeds included.
C7_CountNeverDecreases ==
    /\ rpc_fail_count = 0
    /\ [][rpc_fail_count' >= rpc_fail_count]_vars

\* A name() call succeeded after earlier failures and the count is kept.
C7_Witness ==
    /\ pc = "notify_fid"
    /\ rpc_fail_count > 0
    /\ events[Len(events)].op = "name"
    /\ events[Len(events)].ok
    /\ rpc_fail_count = FetchEntry.rpc_fail_count

----------------------------------------------------------------------------
(* C8 *)

\* get_erc20_transfer has scanned the receipt it fetched.
Scanned == receipt # NoneDict /\ pc \in {"name", "notify_fid"}

TopicIsTransfer(log) ==
    log.topics # <<>> /\ Head(log.topics) = TRANSFER_EVENT_SIG

\* The log is a well-formed Transfer(address,address,uint256) event.
DecodesAsTransfer(log) == Len(log.topics) = 3 /\ Len(log.data) = 1

\* C8 as stated: a log is a match iff topics[0] is the Transfer signature, so
\* the scan yields a contract iff some log carries it.
C8_MatchIffTopic ==
    Scanned =>
        (token_contract # None <=>
            \E i \in 1..Len(receipt.logs) : TopicIsTransfer(receipt.logs[i]))

\* C8, amended: a log is a match iff topics[0] is the Transfer signature and
\* the log also decodes as a Transfer event; a log with another topics[0], an
\* empty topics list or a failed decoding yields no match, and the scan of
\* such logs raises nothing (it returns, and rpc_fail_count stays).
C8_MatchIffTopicAndDecode ==
    /\ [](Scanned =>
            /\ token_contract # None <=>
                 \E i \in 1..Len(receipt.logs) :
                     /\ TopicIsTransfer(receipt.logs[i])
                     /\ DecodesAsTransfer(receipt.logs[i])
            /\ token_contract # None =>
                 \E i \in 1..Len(receipt.logs) :
                     /\ receipt.logs[i].address = token_contract
                     /\ TopicIsTransfer(receipt.logs[i])
                     /\ DecodesAsTransfer(receipt.logs[i]))
    /\ [][pc = "scan" =>
            (pc' \in {"name", "notify_fid"} /\ rpc_fail_count' = rpc_fail_count)]_vars

\* A log without topics and a log of another event are passed over, the
\* ERC-20 Transfer is matched.
C8_Witness ==
    /\ Scanned
    /\ receipt.logs = <<AnonymousLog("0xPOOL"), Erc20Transfer("0xTOKEN")>>
    /\ token_contract = "0xTOKEN"

----------------------------------------------------------------------------
(* C9 *)

ReceiptFailed == \E i \in 1..Len(events) : events[i].op = "receipt" /\ ~events[i].ok
NameFailed == \E i \in 1..Len(events) : events[i].op = "name" /\ ~events[i].ok

\* The notifications of the iteration show what the reader calls got.
DispatchesDegraded ==
    \A i \in 1..Len(events) :
        events[i].op = "send" =>
            /\ ReceiptFailed =>
                 /\ events[i].message.body.contract_text = NOT_FOUND
                 /\ events[i].message.body.ticket = NO_NAME
            /\ NameFailed =>
                 /\ events[i].message.body.contract_text = token_contract
                 /\ token_contract # None
                 /\ events[i].message.body.ticket = NO_NAME

\* C9 as stated: a failed reader call never aborts the processing; the loop
\* goes on and every matched route is notified.
C9_ReaderFailureNeverAborts ==
    (pc \in ProcessingPcs \cup {"sleep", "exited"} /\ FailedReaderCalls # {}) =>
        /\ pc # "exited"
        /\ pc = "sleep" => OneDispatchPerRoute

\* C9, amended: a failed reader call that leaves rpc_fail_count below
\* MAX_RPC_FAILS does not abort the processing: every matched route is
\* notified once, with the contract and/or the name rendered as absent, and
\* the loop goes on.  The failure that brings the count to MAX_RPC_FAILS ends
\* the process instead.
C9_ReaderFailureBelowThreshold ==
    (InIteration /\ FailedReaderCalls # {}) =>
        /\ (FidRoute \/ CastHashRoute)
        /\ Cardinality(FailedReaderCalls) = 1
        /\ rpc_fail_count < MAX_RPC_FAILS =>
             /\ pc \in {"notify_fid", "notify_bankr", "update", "sleep"}
             /\ DispatchesDegraded
             /\ pc \in {"update", "sleep"} => OneDispatchPerRoute
        /\ rpc_fail_count >= MAX_RPC_FAILS => pc = "exited"

\* The name() call failed; both routes are notified with the contract and
\* without a name.
C9_Witness ==
    /\ pc = "sleep"
    /\ NameFailed
    /\ FidRoute
    /\ CastHashRoute
    /\ Cardinality(SendsTo(TELEGRAM_CHAT_ID_FID)) = 1
    /\ Cardinality(SendsTo(TELEGRAM_CHAT_ID_BANKR)) = 1
    /\ \A i \in 1..Len(events) :
         events[i].op = "send" =>
            /\ events[i].message.body.contract_text = "0xTOKEN"
            /\ events[i].message.body.ticket = NO_NAME

----------------------------------------------------------------------------
(* C10 *)

FailedSends == EventsWhere(LAMBDA e : e.op = "send" /\ ~e.ok)

\* The step appends a failed notification to the history.
SendFails ==
    /\ Len(events') = Len(events) + 1
    /\ events'[Len(events')].op = "send"
    /\ ~events'[Len(events')].ok

\* C10: a failed notification leaves rpc_fail_count and last_tx_hash to the
\* step alone and the process running; the iteration still notifies the other
\* matched route, makes one attempt per route and records the hash.
C10_SendFailureIsSwallowed ==
    /\ [][SendFails =>
            /\ UNCHANGED <<rpc_fail_count, last_tx_hash>>
            /\ pc' # "exited"]_vars
    /\ []((FailedSends # {}) => pc # "exited")
    /\ []((pc \in {"update", "sleep"} /\ FailedSends # {}) =>
            /\ Cardinality(SendsTo(TELEGRAM_CHAT_ID_FID)) = Count(process_fid)
            /\ Cardinality(SendsTo(TELEGRAM_CHAT_ID_BANKR)) = Count(process_bankr)
            /\ rpc_fail_count =
                 FetchEntry.rpc_fail_count + Cardinality(FailedReaderCalls))
    /\ []((pc = "sleep" /\ FailedSends # {}) => last_tx_hash = current_hash)

\* The notification of the fid channel failed; the cast-hash channel was
\* notified all the same and the hash is recorded.
C10_Witness ==
    /\ pc = "sleep"
    /\ \E i \in FailedSends : events[i].chat_id = TELEGRAM_CHAT_ID_FID
    /\ \E i \in SendsTo(TELEGRAM_CHAT_ID_BANKR) : events[i].ok
    /\ last_tx_hash = current_hash
    /\ current_hash = "0xB"

----------------------------------------------------------------------------
(* C11 *)

\* The fetch of the iteration raised, or its body had a status other than "1"
\* or an empty result list.
FetchGaveNothing ==
    \/ FetchEntry.raised
    \/ FetchEntry.status # "1"
    \/ FetchEntry.empty

\* C11: an iteration whose explorer fetch raised, had a status other than "1" or
\* an empty result makes no call after the fetch, leaves last_tx_hash and
\* rpc_fail_count as they were and goes by way of the sleep to the next fetch.
C11_FailedFetchIsNoOp ==
    /\ []((pc \in (LoopPcs \ {"poll"}) /\ FetchGaveNothing) =>
            /\ tx = NoneDict
            /\ pc \in {"check", "sleep"}
            /\ Len(events) = 1
            /\ last_tx_hash = FetchEntry.last_tx_hash
            /\ rpc_fail_count = FetchEntry.rpc_fail_count)
    /\ [][(pc = "check" /\ tx = NoneDict) =>
            (pc' = "sleep" /\ UNCHANGED <<last_tx_hash, rpc_fail_count, events>>)]_vars
    /\ [][pc = "sleep" =>
            (pc' = "poll" /\ UNCHANGED <<last_tx_hash, rpc_fail_count>>)]_vars

\* A body with status "0" and a transaction in its result, after an earlier
\* iteration recorded a hash and a reader call failed.
C11_Witness ==
    /\ pc = "sleep"
    /\ ~FetchEntry.raised
    /\ FetchEntry.status = "0"
    /\ ~FetchEntry.empty
    /\ tx = NoneDict
    /\ last_tx_hash = "0xA"
    /\ rpc_fail_count = 1

----------------------------------------------------------------------------
(* C12 *)

\* The iteration fetched a transaction whose hash differs from last_tx_hash
\* and is past the comparison of line 202.
ProcessingNew ==
    /\ InIteration
    /\ pc # "check"
    /\ tx # NoneDict
    /\ tx.hash # FetchEntry.last_tx_hash

\* The "input" field is absent, empty or just the prefix.
NoPayload(t) == t.input \in {NoneText, EmptyStr, <<"0x">>}

\* C12: a new transaction whose input is absent, "" or "0x" is not given to the
\* decoder, matches no route, causes no reader call and no notification and
\* leaves rpc_fail_count alone; its hash is last_tx_hash when the sleep begins.
C12_NoPayloadNoRoute ==
    (ProcessingNew /\ NoPayload(tx)) =>
        /\ pc \in {"decode", "classify", "update", "sleep"}
        /\ Len(events) = 1
        /\ preSaleConfig = NoneDict
        /\ ~process_fid
        /\ ~process_bankr
        /\ rpc_fail_count = FetchEntry.rpc_fail_count
        /\ pc = "sleep" => (last_tx_hash = tx.hash /\ tx.hash \in seen_hashes)

\* Input "0x" under a hash that replaced another one.
C12_Witness ==
    /\ pc = "sleep"
    /\ ProcessingNew
    /\ tx.input = <<"0x">>
    /\ FetchEntry.last_tx_hash = "0xB"
    /\ last_tx_hash = "0xA"

----------------------------------------------------------------------------
(* C13 *)

\* A payload the decoder rejects: another selector, or arguments cut short.
Undecodable(t) ==
    /\ Len(t.input) >= 2
    /\ t.input[1] = "0x"
    /\ (t.input[2] # DEPLOY_TOKEN_SELECTOR \/ Len(t.input) < 4)

----------------------------------------------------------------------------
(* C14 *)

\* C14: with WALLET_ADDRESS, RPC_URL, TELEGRAM_BOT_TOKEN, TELEGRAM_CHAT_ID_FID
\* or TELEGRAM_CHAT_ID_BANKR unset the process goes from the configuration test
\* to its exit with no call made (no start message, no fetch, no processing);
\* with the five set, BASESCAN_API_KEY set or not, the only exit is the one at
\* MAX_RPC_FAILS.
C14_MissingConfigHalts ==
    /\ ~(REQUIRED_ENV \subseteq env) =>
          /\ pc \in {"config", "exited"}
          /\ events = <<>>
          /\ seen_hashes = {}
          /\ script_attempts = <<>>
          /\ rpc_fail_count = 0
          /\ last_tx_hash = None
    /\ (REQUIRED_ENV \subseteq env /\ pc = "exited") =>
          /\ rpc_fail_count >= MAX_RPC_FAILS
          /\ events # <<>>

\* Everything but the bankr channel id is set, and the process has exited.
C14_Witness ==
    /\ env = ENV_NAMES \ {"TELEGRAM_CHAT_ID_BANKR"}
    /\ pc = "exited"
    /\ events = <<>>

----------------------------------------------------------------------------
(* C15 *)

\* C15: after the loop has begun the process exits only with rpc_fail_count at
\* MAX_RPC_FAILS and a failed reader call as its last call; an iteration that
\* does not exit reaches its sleep, the sleep is followed by the next fetch,
\* and the fetches go on for ever unless the process exits.
C15_RunsUntilThreshold ==
    /\ []((pc = "exited" /\ events # <<>>) =>
            /\ rpc_fail_count >= MAX_RPC_FAILS
            /\ IsFailedReaderCall(events[Len(events)]))
    /\ []((pc \in LoopPcs /\ rpc_fail_count < MAX_RPC_FAILS) => ENABLED Next)
    /\ (pc \in (LoopPcs \ {"sleep"})) ~> (pc \in {"sleep", "exited"})
    /\ (pc = "sleep") ~> (pc = "poll")
    /\ ([]<>(pc = "poll") \/ <>(pc = "exited"))

\* The loop has gone through a processing with a failed reader call and is at
\* the fetch of a later iteration.
C15_Witness ==
    /\ pc = "poll"
    /\ rpc_fail_count = MAX_RPC_FAILS - 1
    /\ last_tx_hash = "0xB"
    /\ seen_hashes = Hashes

----------------------------------------------------------------------------
(* C16 *)

ReaderCalls == EventsWhere(LAMBDA e : e.op \in {"receipt", "name"})
ReceiptCalls == EventsWhere(LAMBDA e : e.op = "receipt")
NameCalls == EventsWhere(LAMBDA e : e.op = "name")
Sends == EventsWhere(LAMBDA e : e.op = "send")

\* C16: the receipt is fetched only for a new transaction that matched a
\* route, and once; name() is called only right after a receipt fetch that
\* succeeded and whose scan accepted a log, on that log's address; every
\* notification comes after the reader calls; a transaction that matched no
\* route causes no reader call and leaves rpc_fail_count alone.
C16_ReaderCallsGatedAndOrdered ==
    /\ InIteration =>
         /\ \A i \in ReceiptCalls :
              /\ tx # NoneDict
              /\ tx.hash # FetchEntry.last_tx_hash
              /\ events[i].tx_hash = tx.hash
              /\ FidRoute \/ CastHashRoute
              /\ ReceiptCalls = {i}
         /\ \A i \in NameCalls :
              /\ i - 1 \in ReceiptCalls
              /\ events[i - 1].ok
              /\ events[i].address = token_contract
              /\ token_contract # None
              /\ NameCalls = {i}
         /\ \A i \in Sends : \A j \in ReaderCalls : j < i
         /\ \A i \in Sends : ReceiptCalls # {}
    /\ (Scanned /\ pc = "name") =>
         \E i \in 1..Len(receipt.logs) :
             /\ receipt.logs[i].address = token_contract
             /\ TopicIsTransfer(receipt.logs[i])
             /\ DecodesAsTransfer(receipt.logs[i])
    /\ (ProcessingNew /\ pc \notin {"decode", "classify"}
          /\ ~(FidRoute \/ CastHashRoute)) =>
         /\ ReaderCalls = {}
         /\ rpc_fail_count = FetchEntry.rpc_fail_count
         /\ pc \in {"update", "sleep"}

\* Both routes matched: fetch, decode, receipt, name, then the two sends.
C16_Witness ==
    /\ pc = "update"
    /\ Len(events) = 6
    /\ events[3].op = "receipt"
    /\ events[4].op = "name"
    /\ events[4].address = "0xTOKEN2"
    /\ events[5].op = "send"
    /\ events[6].op = "send"

----------------------------------------------------------------------------
(* C17 *)

\* C17: the transaction whose reader call is the failure that brings
\* rpc_fail_count to MAX_RPC_FAILS matched a route and yet gets no
\* notification: the process exits in that call, with no notification of the
\* iteration sent and last_tx_hash still the hash it held at the fetch, and
\* takes no step after.
C17_TenthFailureNotNotified ==
    /\ [](ProcessingCutShort =>
            /\ rpc_fail_count = MAX_RPC_FAILS
            /\ FetchEntry.rpc_fail_count = MAX_RPC_FAILS - 1
            /\ IsFailedReaderCall(events[Len(events)])
            /\ Sends = {}
            /\ process_fid \/ process_bankr
            /\ FidRoute \/ CastHashRoute
            /\ current_hash = tx.hash
            /\ last_tx_hash = FetchEntry.last_tx_hash
            /\ last_tx_hash # current_hash)
    /\ [](rpc_fail_count >= MAX_RPC_FAILS => pc = "exited")
    /\ [][pc # "exited"]_vars

\* The tenth failure is a name() call for a transaction of the fid route.
C17_Witness ==
    /\ ProcessingCutShort
    /\ process_fid
    /\ ~process_bankr
    /\ events[Len(events)].op = "name"
    /\ current_hash = "0xB"
    /\ last_tx_hash = "0xA"

----------------------------------------------------------------------------
(* C18 *)

\* C18: within one iteration rpc_fail_count grows by at most one, because a
\* failed receipt fetch is not followed by a name() call; each increment is
\* the first of its iteration and belongs to the processing of a new
\* transaction that matched a route, so the exit at MAX_RPC_FAILS follows
\* that many processing attempts of route-matching transactions.
C18_OneFailurePerIteration ==
    /\ [](InIteration =>
            /\ Cardinality(FailedReaderCalls) <= 1
            /\ rpc_fail_count =
                 FetchEntry.rpc_fail_count + Cardinality(FailedReaderCalls)
            /\ ReceiptFailed => NameCalls = {}
            /\ FailedReaderCalls # {} =>
                 /\ tx # NoneDict
                 /\ tx.hash # FetchEntry.last_tx_hash
                 /\ FidRoute \/ CastHashRoute)
    /\ [][rpc_fail_count' # rpc_fail_count =>
            /\ pc \in {"receipt", "name"}
            /\ rpc_fail_count = FetchEntry.rpc_fail_count
            /\ rpc_fail_count' = rpc_fail_count + 1]_vars

\* The receipt fetch failed and the iteration went on to its notification.
C18_Witness ==
    /\ pc = "notify_bankr"
    /\ ReceiptFailed
    /\ NameCalls = {}
    /\ rpc_fail_count = FetchEntry.rpc_fail_count + 1
    /\ rpc_fail_count = 3

----------------------------------------------------------------------------
(* C19 *)

\* C19: a run begins with last_tx_hash absent and nothing carried over, so the
\* first transaction it fetches with a hash is taken as new whatever that hash
\* is: it goes through the decode and the classification, gets the
\* notifications of its routes and is recorded; at every sleep the fetched
\* hash is one this run has processed.
C19_FirstFetchIsNew ==
    /\ seen_hashes = {} => last_tx_hash = None
    /\ (InIteration /\ pc # "check" /\ tx # NoneDict /\ tx.hash \in Hashes
          /\ FetchEntry.last_tx_hash = None) =>
         /\ pc \in ProcessingPcs \cup {"sleep", "exited"}
         /\ current_hash = tx.hash
         /\ pc \notin {"decode", "sleep"} =>
              (\E i \in 1..Len(events) : events[i].op = "decode") <=> ~NoPayload(tx)
         /\ pc = "sleep" =>
              /\ last_tx_hash = tx.hash
              /\ OneDispatchPerRoute
    /\ (pc = "sleep" /\ tx # NoneDict /\ tx.hash \in Hashes) =>
         tx.hash \in seen_hashes

\* The first processing of the run, with a notification sent.
C19_Witness ==
    /\ pc = "sleep"
    /\ FetchEntry.last_tx_hash = None
    /\ FetchEntry.rpc_fail_count = 0
    /\ tx # NoneDict
    /\ tx.hash = "0xA"
    /\ seen_hashes = {"0xA"}
    /\ Sends # {}

----------------------------------------------------------------------------
(* C20 *)

\* The positions of the logs that carry the Transfer signature and decode as
\* Transfer(address,address,uint256).
AcceptedLogs(logs) ==
    {i \in 1..Len(logs) : TopicIsTransfer(logs[i]) /\ DecodesAsTransfer(logs[i])}

\* C20: the contract taken from a receipt is the address of the first log, in
\* receipt order, that carries the Transfer signature and decodes; a log with
\* the signature that does not decode is passed over without counting as a
\* reader failure; with no such log the contract is absent.
C20_FirstAcceptedLogWins ==
    /\ [](Scanned =>
            LET logs == receipt.logs
                accepted == AcceptedLogs(logs)
            IN  /\ accepted = {} => token_contract = None
                /\ accepted # {} =>
                     token_contract =
                       logs[CHOOSE i \in accepted : \A j \in accepted : i <= j].address
                /\ rpc_fail_count = FetchEntry.rpc_fail_count
                /\ FailedReaderCalls = {})
    /\ [][pc = "scan" => (rpc_fail_count' = rpc_fail_count /\ events' = events)]_vars

\* A Transfer log that does not decode, then one that does.
C20_Witness ==
    /\ Scanned
    /\ receipt.logs = <<Erc721Transfer("0xNFT"), Erc20Transfer("0xTOKEN")>>
    /\ token_contract = "0xTOKEN"

=============================================================================
